---- MODULE Spec2Model ----
(***************************************************************************)
(* SmartFileHub frontend: the upload controller (FileUpload.tsx), the API  *)
(* client (fileService.ts) and the App shell that couples the upload       *)
(* component to the file list.                                             *)
(*                                                                         *)
(* Nullable values are encoded as sequences: <<>> is null/undefined and    *)
(* <<x>> is the value x.                                                   *)
(***************************************************************************)
EXTENDS Integers, Sequences, FiniteSets, TLC

\* ------------------------------------------------------------------ bounds
MaxUploads == 2
MaxFilterFields == 2
MaxSizeDigits == 5
MaxListOps == 4
MaxAppUploads == 1

Null == <<>>
Some(x) == <<x>>

\* ------------------------------------------------------ formatFileSize
\* A byte count is a JavaScript number that may exceed 2^31, so it is kept
\* as its base-1024 digits, least significant first, without leading
\* zeros: 0 is <<>>, 1536 is <<512, 1>>, 1024^4 is <<0, 0, 0, 0, 1>>.
RECURSIVE Bytes(_)
Bytes(n) == IF n = 0 THEN <<>> ELSE <<n % 1024>> \o Bytes(n \div 1024)

\* Math.floor(Math.log(bytes) / Math.log(k)) for bytes >= 1
FloorLog1024(bytes) == Len(bytes) - 1

\* sizes[i]; indexing past the array yields undefined, printed "undefined"
SizeUnit(i) ==
  CASE i = 0 -> "Bytes"
    [] i = 1 -> "KB"
    [] i = 2 -> "MB"
    [] i = 3 -> "GB"
    [] OTHER -> "undefined"

\* floor(200 * v / 1024^m), v the number made of the m lowest digits
RECURSIVE Scaled200(_, _)
Scaled200(bytes, m) ==
  IF m = 0 THEN 0 ELSE (200 * bytes[m] + Scaled200(bytes, m - 1)) \div 1024

\* The formatted size as <<hundredths, unit>>: the number printed is
\* hundredths/100, that is bytes / k^i rounded half up to two decimals
\* (toFixed(2); parseFloat only drops trailing zeros).
formatFileSize(bytes) ==
  IF bytes = <<>> THEN <<0, "Bytes">>
  ELSE LET i == FloorLog1024(bytes)
       IN  << 100 * bytes[i + 1] + (Scaled200(bytes, i) + 1) \div 2,
              SizeUnit(i) >>

\* ------------------------------------------------------- input domains
\* Files the user can pick in the file input (name, size in bytes).
Files ==
  { [name |-> "a.txt", size |-> Bytes(0)],
    [name |-> "b.pdf", size |-> Bytes(1536)],
    [name |-> "c.bin", size |-> Bytes(1048576)] }

\* Messages a server may put in a 409 body.
Messages == {"duplicate", "already stored"}

\* Response bodies of POST /files/ as axios exposes them in response.data.
\*   "empty"  : no body, response.data is the empty string
\*   "record" : a FileRecord JSON object
\*   "object" : a JSON object holding the keys in `keys`
\*   "text"   : a non-empty, non-JSON text body
UploadBodies ==
  { [tag |-> "empty",  keys |-> {}, message |-> ""],
    [tag |-> "record", keys |-> {"id", "original_filename", "size"}, message |-> ""],
    [tag |-> "text",   keys |-> {}, message |-> ""] }
  \cup { [tag |-> "object", keys |-> {}, message |-> ""] }
  \cup { [tag |-> "object", keys |-> {"duplicate_file_id"}, message |-> ""] }
  \cup { [tag |-> "object", keys |-> ks, message |-> m] :
           ks \in {{"message"}, {"message", "duplicate_file_id"}}, m \in Messages }

NetworkFailure ==
  [kind |-> "network", status |-> 0,
   body |-> [tag |-> "empty", keys |-> {}, message |-> ""]]

\* What axios.post can produce: no response at all, or an HTTP response
\* (201 Created, 409 Conflict with any body, 500 with an error page).
UploadResponses ==
  { NetworkFailure }
  \cup { [kind |-> "http", status |-> 201, body |-> b] :
           b \in { x \in UploadBodies : x.tag \in {"record", "empty"} } }
  \cup { [kind |-> "http", status |-> 409, body |-> b] : b \in UploadBodies }
  \cup { [kind |-> "http", status |-> 500, body |-> b] :
           b \in { x \in UploadBodies : x.tag \in {"text", "empty"} } }

\* Values GET /files/total_saving_size/ may return.
SavingsValues == { [size |-> 0, unit |-> "Bytes"], [size |-> 3, unit |-> "KB"] }

\* ------------------------------------------------------------ messages
SelectFileMessage == "Please select a file"
UploadFailedMessage == "Failed to upload file. Please try again."

\* -------------------------------------------------- fileService.uploadFile
Is2xx(status) == status >= 200 /\ status < 300

\* response.data is truthy unless it is the empty string
BodyTruthy(body) == body.tag # "empty"

\* data.message / data.duplicate_file_id: undefined when the key is missing
BodyMessage(body) ==
  IF "message" \in body.keys THEN Some(body.message) ELSE Null
BodyDuplicateId(body) ==
  IF "duplicate_file_id" \in body.keys THEN Some("f1") ELSE Null

\* uploadFile testing for status 400 instead of 409.
uploadFile_Status400(resp) ==
  IF resp.kind = "http" /\ Is2xx(resp.status)
  THEN [ok |-> TRUE, status |-> "", keys |-> {},
        message |-> Null, duplicate_file_id |-> Null]
  ELSE IF resp.kind = "http" /\ resp.status = 400 /\ BodyTruthy(resp.body)
  THEN [ok |-> FALSE, status |-> "DUPLICATE",
        keys |-> {"status", "message", "duplicate_file_id"},
        message |-> BodyMessage(resp.body),
        duplicate_file_id |-> BodyDuplicateId(resp.body)]
  ELSE [ok |-> FALSE, status |-> "AxiosError",
        keys |-> {"message", "name", "code", "config", "request", "response"},
        message |-> Some("Request failed"), duplicate_file_id |-> Null]

\* The result of uploadFile: it resolves with response.data on a 2xx,
\* throws a DuplicateFileError on a 409 with a truthy body, and rethrows
\* the axios error otherwise.  `keys` are the own keys of the thrown object.
uploadFile(resp) ==
  IF resp.kind = "http" /\ Is2xx(resp.status)
  THEN [ok |-> TRUE, status |-> "", keys |-> {},
        message |-> Null, duplicate_file_id |-> Null]
  ELSE IF resp.kind = "http" /\ resp.status = 409 /\ BodyTruthy(resp.body)
  THEN [ok |-> FALSE, status |-> "DUPLICATE",
        keys |-> {"status", "message", "duplicate_file_id"},
        message |-> BodyMessage(resp.body),
        duplicate_file_id |-> BodyDuplicateId(resp.body)]
  ELSE [ok |-> FALSE, status |-> "AxiosError",
        keys |-> {"message", "name", "code", "config", "request", "response"},
        message |-> Some("Request failed"), duplicate_file_id |-> Null]

\* The UploadOutcome variant a result of uploadFile stands for.
UploadOutcome(result) ==
  IF result.ok THEN "Created"
  ELSE IF result.status = "DUPLICATE" THEN "Duplicate"
  ELSE "Failed"

\* ---------------------------------------------------- fileService.getFiles
\* A FileFilters object is the sequence of its own entries, in insertion
\* order; each entry is a key and a JavaScript value.
FilterKeys == {"search", "file_type", "min_size"}

Undefined == [t |-> "undefined", s |-> "", n |-> 0]
JsNull == [t |-> "null", s |-> "", n |-> 0]
Str(x) == [t |-> "string", s |-> x, n |-> 0]
Num(x) == [t |-> "number", s |-> "", n |-> x]

FilterValues == { Undefined, JsNull, Str(""), Str("pdf"), Num(0), Num(10) }

\* All filters objects with at most MaxFilterFields distinct keys.
FilterInputs ==
  UNION { { f \in [1..len -> [key : FilterKeys, value : FilterValues]] :
              \A i, j \in 1..len : i # j => f[i].key # f[j].key } :
          len \in 0..MaxFilterFields }

\* The filter without the test for the empty string.
ParamIncluded_KeepsEmpty(value) ==
  /\ value.t # "undefined"
  /\ value.t # "null"

\* value !== undefined && value !== '' && value !== null
ParamIncluded(value) ==
  /\ value.t # "undefined"
  /\ ~(value.t = "string" /\ value.s = "")
  /\ value.t # "null"

\* String(value)
JsString(value) ==
  CASE value.t = "string" -> value.s
    [] value.t = "number" -> ToString(value.n)
    [] value.t = "null" -> "null"
    [] OTHER -> "undefined"

\* Object.entries(filters).forEach(... params.append(key, String(value)))
RECURSIVE BuildParams(_)
BuildParams(filters) ==
  IF filters = <<>> THEN <<>>
  ELSE LET e == Head(filters)
       IN  IF ParamIncluded(e.value)
           THEN << <<e.key, JsString(e.value)>> >> \o BuildParams(Tail(filters))
           ELSE BuildParams(Tail(filters))

\* Bodies of GET /files/ as axios exposes them in response.data.
\*   shape "array"  : a JSON array holding `items`
\*   shape "object" : a JSON object; `detail` is the type of its detail
\*                    field, `results` the kind of its results field
\*   shape "null"   : the JSON value null
\*   shape "empty"  : no body, response.data is the empty string
RecordSeqs == { <<>>, <<"f1">>, <<"f1", "f2">> }

ListBodies ==
  { [shape |-> "array", items |-> r, detail |-> "absent", results |-> "absent"] :
      r \in RecordSeqs }
  \cup { [shape |-> "object", items |-> r, detail |-> d, results |-> "array"] :
           r \in RecordSeqs, d \in {"absent", "string", "number"} }
  \cup { [shape |-> "object", items |-> <<>>, detail |-> d, results |-> k] :
           d \in {"absent", "string", "number"}, k \in {"absent", "null"} }
  \cup { [shape |-> s, items |-> <<>>, detail |-> "absent", results |-> "absent"] :
           s \in {"null", "empty"} }

ListResponses ==
  { [kind |-> "network", status |-> 0,
     body |-> [shape |-> "empty", items |-> <<>>, detail |-> "absent",
               results |-> "absent"]] }
  \cup { [kind |-> "http", status |-> s, body |-> b] :
           s \in {200, 500}, b \in ListBodies }

NoListResponse ==
  [kind |-> "none", status |-> 0,
   body |-> [shape |-> "empty", items |-> <<>>, detail |-> "absent",
             results |-> "absent"]]

NoResult == [state |-> "none", value |-> <<>>]
Returned(v) == [state |-> "returned", value |-> v]
Threw == [state |-> "threw", value |-> <<>>]

\* Array.isArray(response.data)
IsArrayBody(body) == body.shape = "array"

\* response.data && typeof response.data.detail === 'string'
IsNoResultsBody(body) ==
  /\ body.shape \notin {"null", "empty"}
  /\ body.shape = "object" /\ body.detail = "string"

\* response.data.results || []  (reading a property of null throws)
ResultsOrEmpty(body) ==
  IF body.shape = "null" THEN Threw
  ELSE IF body.shape = "object" /\ body.results = "array"
  THEN Returned(body.items)
  ELSE Returned(<<>>)

\* getFiles without the Array.isArray branch.
getFilesResult_NoArrayCheck(resp) ==
  IF ~(resp.kind = "http" /\ Is2xx(resp.status)) THEN Threw
  ELSE IF IsNoResultsBody(resp.body) THEN Returned(<<>>)
  ELSE ResultsOrEmpty(resp.body)

\* What getFiles does with the settled GET: axios rejects unless the
\* status is 2xx, and the rejection passes through getFiles.
getFilesResult(resp) ==
  IF ~(resp.kind = "http" /\ Is2xx(resp.status)) THEN Threw
  ELSE IF IsArrayBody(resp.body) THEN Returned(resp.body.items)
  ELSE IF IsNoResultsBody(resp.body) THEN Returned(<<>>)
  ELSE ResultsOrEmpty(resp.body)

\* ------------------------------------------------ FileList: filters, query
\* The filter inputs of FileList used here and the texts typed into them.
\* An input always reports a string (e.target.value).
ListFields == {"search", "file_type"}
InputTexts == {"", "pdf"}

\* { ...prev, [name]: value }: an existing key keeps its place, a new key
\* is added last.
SetField(obj, name, value) ==
  IF \E i \in 1..Len(obj) : obj[i].key = name
  THEN [i \in 1..Len(obj) |->
          IF obj[i].key = name THEN [key |-> name, value |-> value] ELSE obj[i]]
  ELSE Append(obj, [key |-> name, value |-> value])

\* The hash of the query key ['files', filters]: the query library
\* serialises the key with the object's keys sorted and drops undefined
\* values, so the hash is the set of the object's entries.
HashKey(filters) ==
  { <<filters[i].key, filters[i].value>> :
      i \in { j \in 1..Len(filters) : filters[j].value.t # "undefined" } }

\* A query of the cache: its data (Null until a fetch succeeded), whether
\* it is in the error state, whether it is invalidated, and the GET in
\* flight (Null when idle) with the parameters sent and the listings the
\* server may answer with.  sentAt is the value of refreshKey when the GET
\* was sent, asOf the sentAt of the GET that produced the data and from
\* the set of parameters that GET carried.
NewQuery ==
  [data |-> Null, asOf |-> 0, from |-> {}, error |-> FALSE,
   isInvalidated |-> FALSE, fetch |-> Null]

\* The backend: the records a listing returns for the parameters sent.
\* Records are identified by their id; the records in PdfRecords are the
\* ones a non-empty search or file_type text selects.
PdfRecords == {1, 2}

RecordMatches(id, params) ==
  \A j \in 1..Len(params) : params[j][2] = "" \/ id \in PdfRecords

RECURSIVE SortedSeq(_)
SortedSeq(ids) ==
  IF ids = {} THEN <<>>
  ELSE LET m == CHOOSE x \in ids : \A y \in ids : x <= y
       IN  <<m>> \o SortedSeq(ids \ {m})

Listing(server, params) ==
  SortedSeq({ id \in server : RecordMatches(id, params) })

\* The query function () => fileService.getFiles(filters) sends the GET.
StartFetch(q, filters, server, now) ==
  [q EXCEPT !.fetch = Some([params |-> BuildParams(filters),
                            views |-> {Listing(server, BuildParams(filters))},
                            sentAt |-> now]),
            !.error = IF q.data = Null THEN FALSE ELSE q.error]

\* Query.fetch: a fetch already in flight is joined, unless the query has
\* data and the caller asked to cancel it, in which case its answer is
\* dropped and a new GET is sent.
QueryFetch(q, filters, server, now, cancelRefetch) ==
  IF q.fetch # Null /\ ~(q.data # Null /\ cancelRefetch)
  THEN q
  ELSE StartFetch(q, filters, server, now)

QueryOf(cache, hash) ==
  IF hash \in DOMAIN cache THEN cache[hash] ELSE NewQuery

SetQuery(cache, hash, q) ==
  [h \in DOMAIN cache \cup {hash} |-> IF h = hash THEN q ELSE cache[h]]

\* useQuery subscribing to the key of `filters` (on mount, or when the key
\* changes): with the default staleTime of 0 the query is stale and is
\* fetched; a fetch in flight for that key is joined.
ObserveQuery(cache, filters, server, now) ==
  SetQuery(cache, HashKey(filters),
           QueryFetch(QueryOf(cache, HashKey(filters)), filters, server, now,
                      FALSE))

\* queryClient.invalidateQueries({ queryKey: ['files'] }): every files
\* query is marked invalidated and the one observed by the mounted
\* FileList is refetched, cancelling a refetch in flight.
InvalidateFiles(cache, filters, server, now) ==
  LET marked == [h \in DOMAIN cache |-> [cache[h] EXCEPT !.isInvalidated = TRUE]]
      active == HashKey(filters)
  IN  IF active \in DOMAIN marked
      THEN SetQuery(marked, active,
                    QueryFetch(marked[active], filters, server, now, TRUE))
      ELSE marked

\* The server's collection changed while GETs are in flight: each of them
\* may be answered from the old or from the new collection.
AddViews(cache, server) ==
  [h \in DOMAIN cache |->
     IF cache[h].fetch = Null THEN cache[h]
     ELSE [cache[h] EXCEPT !.fetch =
             Some([cache[h].fetch[1] EXCEPT !.views =
                     @ \cup {Listing(server, cache[h].fetch[1].params)}])]]

\* --------------------------------------------------------------- state
VARIABLES
  selectedFile,     \* FileUpload: selectedFile (Null or Some(file))
  error,            \* FileUpload: error notice
  info,             \* FileUpload: info notice
  savings,          \* FileUpload: savings
  isPending,        \* uploadMutation.isPending
  uploadInFlight,   \* the file of the POST in flight (Null when none)
  savingsInFlight,  \* ids of the savings fetches in flight
  savingsIssued,    \* number of savings fetches issued so far
  invalidateCount,  \* calls of queryClient.invalidateQueries(['files'])
  refreshKey,       \* App: refreshKey
  uploadsStarted,   \* number of upload requests sent
  handleUploadResult, \* how the last handleUpload call ended
  lastOp,           \* the handler that ran last
  lastResponse,     \* the server response of the last completed upload
  lastOutcome,      \* the UploadOutcome of the last completed upload
  dupHistory,       \* the last two duplicate completions
  gfFilters,        \* getFiles: the filters argument
  gfPc,             \* getFiles: "idle", "awaiting" (GET sent) or "done"
  gfParams,         \* getFiles: the query parameters sent
  gfResponse,       \* getFiles: the response of the GET
  gfResult,         \* getFiles: what the call returned or that it threw
  fmtBytes,         \* formatFileSize: the bytes argument
  fmtPc,            \* formatFileSize: "idle" or "done"
  fmtOut,           \* formatFileSize: the value returned
  inputFilters,     \* FileList: inputFilters
  filters,          \* FileList: filters
  cache,            \* the query cache: hash of a files key -> query
  serverFiles,      \* the ids of the records the server holds
  deletesInFlight,  \* DELETE requests in flight: id and issuing mount
  listOps,          \* number of user actions on the list so far
  deleteErrored,    \* deleteMutation.isError of the mounted FileList
  deleted,          \* ids of the records whose DELETE succeeded
  lastCreated       \* the last Created upload: filters applied, new id

uploadVars == << selectedFile, error, info, savings, isPending,
                 uploadInFlight, savingsInFlight, savingsIssued,
                 invalidateCount, refreshKey, uploadsStarted,
                 handleUploadResult, lastOp, lastResponse, lastOutcome,
                 dupHistory >>

gfVars == << gfFilters, gfPc, gfParams, gfResponse, gfResult >>

fmtVars == << fmtBytes, fmtPc, fmtOut >>

listVars == << inputFilters, filters, cache, serverFiles, deletesInFlight,
              listOps, deleteErrored, deleted, lastCreated >>

\* The upload controller's variables other than lastOp.
uploadState == << selectedFile, error, info, savings, isPending,
                  uploadInFlight, savingsInFlight, savingsIssued,
                  invalidateCount, refreshKey, uploadsStarted,
                  handleUploadResult, lastResponse, lastOutcome,
                  dupHistory >>

vars == << uploadVars, gfVars, fmtVars, listVars >>

\* State after the first render and the mount effect, which issues the
\* first savings fetch.
InitUpload ==
  /\ selectedFile = Null
  /\ error = Null
  /\ info = Null
  /\ savings = Null
  /\ isPending = FALSE
  /\ uploadInFlight = Null
  /\ savingsInFlight = {1}
  /\ savingsIssued = 1
  /\ invalidateCount = 0
  /\ refreshKey = 0
  /\ uploadsStarted = 0
  /\ handleUploadResult = "none"
  /\ lastOp = "mount"
  /\ lastResponse = Null
  /\ lastOutcome = "none"
  /\ dupHistory = <<>>

\* No getFiles call has been made.
InitGetFilesIdle ==
  /\ gfFilters = <<>>
  /\ gfPc = "idle"
  /\ gfParams = <<>>
  /\ gfResponse = NoListResponse
  /\ gfResult = NoResult

\* No formatFileSize call has been made.
InitFormatIdle ==
  /\ fmtBytes = <<>>
  /\ fmtPc = "idle"
  /\ fmtOut = <<0, "">>

\* FileList after its first render: no filters, and useQuery has sent the
\* first GET; the server holds one record.
InitList ==
  /\ inputFilters = <<>>
  /\ filters = <<>>
  /\ serverFiles = {1}
  /\ cache = ObserveQuery(<<>>, <<>>, {1}, 0)
  /\ deletesInFlight = {}
  /\ listOps = 0
  /\ deleteErrored = FALSE
  /\ deleted = {}
  /\ lastCreated = Null

Init == InitUpload /\ InitGetFilesIdle /\ InitFormatIdle /\ InitList

\* ------------------------------------------------------------- actions
\* A file input that stays enabled while an upload is pending.
handleFileSelect_WhilePending(f) ==
  /\ selectedFile' = Some(f)
  /\ error' = Null
  /\ lastOp' = "handleFileSelect"
  /\ UNCHANGED << info, savings, isPending, uploadInFlight, savingsInFlight,
                  savingsIssued, invalidateCount, refreshKey, uploadsStarted,
                  handleUploadResult, lastResponse, lastOutcome, dupHistory, gfVars, fmtVars, listVars >>

\* The user picks a file; the input is disabled while an upload is pending.
handleFileSelect(f) ==
  /\ ~isPending
  /\ selectedFile' = Some(f)
  /\ error' = Null
  /\ lastOp' = "handleFileSelect"
  /\ UNCHANGED << info, savings, isPending, uploadInFlight, savingsInFlight,
                  savingsIssued, invalidateCount, refreshKey, uploadsStarted,
                  handleUploadResult, lastResponse, lastOutcome, dupHistory, gfVars, fmtVars, listVars >>

\* The change event carries no file (the picker was cancelled).
handleFileSelectEmpty ==
  /\ ~isPending
  /\ lastOp' = "handleFileSelectEmpty"
  /\ UNCHANGED << selectedFile, error, info, savings, isPending,
                  uploadInFlight, savingsInFlight, savingsIssued,
                  invalidateCount, refreshKey, uploadsStarted,
                  handleUploadResult, lastResponse, lastOutcome, dupHistory, gfVars, fmtVars, listVars >>

\* handleUpload without the early return: the request is sent anyway.
handleUploadNoFile_NoReturn ==
  /\ selectedFile = Null
  /\ uploadsStarted < MaxUploads
  /\ error' = Null
  /\ isPending' = TRUE
  /\ uploadInFlight' = selectedFile
  /\ uploadsStarted' = uploadsStarted + 1
  /\ handleUploadResult' = "awaiting"
  /\ lastOp' = "handleUploadNoFile"
  /\ UNCHANGED << selectedFile, info, savings, savingsInFlight, savingsIssued,
                  invalidateCount, refreshKey, lastResponse, lastOutcome,
                  dupHistory, gfVars, fmtVars, listVars >>

\* handleUpload called with no file selected: the validation branch.
handleUploadNoFile ==
  /\ selectedFile = Null
  /\ error' = Some(SelectFileMessage)
  /\ handleUploadResult' = "returned"
  /\ lastOp' = "handleUploadNoFile"
  /\ UNCHANGED << selectedFile, info, savings, isPending, uploadInFlight,
                  savingsInFlight, savingsIssued, invalidateCount, refreshKey,
                  uploadsStarted, lastResponse, lastOutcome, dupHistory, gfVars, fmtVars, listVars >>

\* handleUpload with a file: clears the error and sends the POST.  The
\* button is disabled while a file is missing or an upload is pending.
handleUploadSubmit ==
  /\ selectedFile # Null
  /\ ~isPending
  /\ uploadsStarted < MaxUploads
  /\ error' = Null
  /\ isPending' = TRUE
  /\ uploadInFlight' = selectedFile
  /\ uploadsStarted' = uploadsStarted + 1
  /\ handleUploadResult' = "awaiting"
  /\ lastOp' = "handleUploadSubmit"
  /\ UNCHANGED << selectedFile, info, savings, savingsInFlight, savingsIssued,
                  invalidateCount, refreshKey, lastResponse, lastOutcome,
                  dupHistory, gfVars, fmtVars, listVars >>

\* 'status' in error && error.status === 'DUPLICATE' &&
\* 'duplicate_file_id' in error
IsDuplicateError(result) ==
  /\ "status" \in result.keys
  /\ result.status = "DUPLICATE"
  /\ "duplicate_file_id" \in result.keys

\* The info notice of the duplicate branch: the template with the
\* formatted size of the selected file ('' when none is selected).
DuplicateInfo(result, file) ==
  [text |-> "File Uploaded. Similar file already exists. Saved {fileSize} of storage by using a reference.",
   fileSize |-> IF file # Null THEN Some(formatFileSize(file[1].size)) ELSE Null]

\* Record of a duplicate completion: the server's message, the size of the
\* selected file and the notice shown.  The last two are kept.
PushDuplicate(resp, result) ==
  LET entry == [message |-> BodyMessage(resp.body),
                size |-> IF selectedFile # Null THEN selectedFile[1].size ELSE <<>>,
                notice |-> DuplicateInfo(result, selectedFile)]
  IN  IF Len(dupHistory) < 2 THEN Append(dupHistory, entry)
      ELSE << dupHistory[2], entry >>

\* await of mutateAsync inside try/catch: a rejection is swallowed.
HandleUploadEnd(result) == "returned"

\* The server stores the uploaded file as a new record.
ServerCreates(server) == server \cup {uploadsStarted + 1}

\* useState<FileFilters>({}) of a FileList that has just been mounted.
MountedFilters == <<>>

\* onSuccess that forgets to call onUploadSuccess(): the list query is
\* invalidated but FileList is not mounted again.

onSuccess_NoNotify ==
  /\ invalidateCount' = invalidateCount + 1
  /\ selectedFile' = Null
  /\ info' = Null
  /\ error' = Null
  /\ savingsIssued' = savingsIssued + 1
  /\ savingsInFlight' = savingsInFlight \cup {savingsIssued + 1}
  /\ cache' = InvalidateFiles(AddViews(cache, serverFiles'), filters,
                              serverFiles', refreshKey)
  /\ lastCreated' = Some([filters |-> filters, id |-> uploadsStarted + 1])
  /\ UNCHANGED << refreshKey, dupHistory, filters, inputFilters,
                  deleteErrored >>

\* uploadMutation.onSuccess: besides its own state it invalidates the
\* files queries and calls onUploadSuccess, which increments refreshKey in
\* App; <FileList key={refreshKey}> is then mounted anew, with empty
\* filters, and its useQuery subscribes to the key of those.
onSuccess ==
  /\ invalidateCount' = invalidateCount + 1
  /\ selectedFile' = Null
  /\ info' = Null
  /\ error' = Null
  /\ refreshKey' = refreshKey + 1
  /\ savingsIssued' = savingsIssued + 1
  /\ savingsInFlight' = savingsInFlight \cup {savingsIssued + 1}
  /\ filters' = MountedFilters
  /\ inputFilters' = MountedFilters
  /\ cache' = ObserveQuery(InvalidateFiles(AddViews(cache, serverFiles'),
                                           filters, serverFiles',
                                           refreshKey + 1),
                           MountedFilters, serverFiles', refreshKey + 1)
  /\ deleteErrored' = FALSE
  /\ lastCreated' = Some([filters |-> filters, id |-> uploadsStarted + 1])
  /\ UNCHANGED dupHistory

\* onError that refreshes the savings in the generic branch as well.
onError_FetchOnFailure(resp, result) ==
  IF IsDuplicateError(result)
  THEN /\ info' = Some(DuplicateInfo(result, selectedFile))
       /\ error' = Null
       /\ savingsIssued' = savingsIssued + 1
       /\ savingsInFlight' = savingsInFlight \cup {savingsIssued + 1}
       /\ dupHistory' = PushDuplicate(resp, result)
       /\ UNCHANGED << selectedFile, invalidateCount, refreshKey, filters,
                       inputFilters, cache, deleteErrored, lastCreated >>
  ELSE /\ error' = Some(UploadFailedMessage)
       /\ info' = Null
       /\ savingsIssued' = savingsIssued + 1
       /\ savingsInFlight' = savingsInFlight \cup {savingsIssued + 1}
       /\ UNCHANGED << selectedFile, invalidateCount, refreshKey, dupHistory,
                       filters, inputFilters, cache, deleteErrored,
                       lastCreated >>

\* onError that clears the selection in the duplicate branch.
onError_ClearsSelection(resp, result) ==
  IF IsDuplicateError(result)
  THEN /\ info' = Some(DuplicateInfo(result, selectedFile))
       /\ error' = Null
       /\ selectedFile' = Null
       /\ savingsIssued' = savingsIssued + 1
       /\ savingsInFlight' = savingsInFlight \cup {savingsIssued + 1}
       /\ dupHistory' = PushDuplicate(resp, result)
       /\ UNCHANGED << invalidateCount, refreshKey, filters, inputFilters,
                       cache, deleteErrored, lastCreated >>
  ELSE /\ error' = Some(UploadFailedMessage)
       /\ info' = Null
       /\ UNCHANGED << selectedFile, savingsIssued, savingsInFlight,
                       invalidateCount, refreshKey, dupHistory, filters,
                       inputFilters, cache, deleteErrored, lastCreated >>

\* onError whose generic branch leaves the info notice in place.
onError_KeepsInfo(resp, result) ==
  IF IsDuplicateError(result)
  THEN /\ info' = Some(DuplicateInfo(result, selectedFile))
       /\ error' = Null
       /\ savingsIssued' = savingsIssued + 1
       /\ savingsInFlight' = savingsInFlight \cup {savingsIssued + 1}
       /\ dupHistory' = PushDuplicate(resp, result)
       /\ UNCHANGED << selectedFile, invalidateCount, refreshKey, filters,
                       inputFilters, cache, deleteErrored, lastCreated >>
  ELSE /\ error' = Some(UploadFailedMessage)
       /\ UNCHANGED << info, selectedFile, savingsIssued, savingsInFlight,
                       invalidateCount, refreshKey, dupHistory, filters,
                       inputFilters, cache, deleteErrored, lastCreated >>

\* uploadMutation.onError
onError(resp, result) ==
  IF IsDuplicateError(result)
  THEN /\ info' = Some(DuplicateInfo(result, selectedFile))
       /\ error' = Null
       /\ savingsIssued' = savingsIssued + 1
       /\ savingsInFlight' = savingsInFlight \cup {savingsIssued + 1}
       /\ dupHistory' = PushDuplicate(resp, result)
       /\ UNCHANGED << selectedFile, invalidateCount, refreshKey, filters,
                       inputFilters, cache, deleteErrored, lastCreated >>
  ELSE /\ error' = Some(UploadFailedMessage)
       /\ info' = Null
       /\ UNCHANGED << selectedFile, savingsIssued, savingsInFlight,
                       invalidateCount, refreshKey, dupHistory, filters,
                       inputFilters, cache, deleteErrored, lastCreated >>

\* The POST completes with response resp: uploadFile settles, the mutation
\* runs onSuccess or onError, then handleUpload resumes after its await.
UploadComplete(resp) ==
  /\ isPending
  /\ LET result == uploadFile(resp)
     IN  /\ serverFiles' = IF result.ok THEN ServerCreates(serverFiles)
                                        ELSE serverFiles
         /\ IF result.ok THEN onSuccess ELSE onError(resp, result)
         /\ lastOutcome' = UploadOutcome(result)
         /\ handleUploadResult' = HandleUploadEnd(result)
  /\ isPending' = FALSE
  /\ uploadInFlight' = Null
  /\ lastResponse' = Some(resp)
  /\ lastOp' = "UploadComplete"
  /\ UNCHANGED << savings, uploadsStarted, deletesInFlight, listOps,
                  deleted, gfVars, fmtVars >>

\* fetchSavingSize resumes: the GET resolved with value v.
SavingsResolved(id, v) ==
  /\ id \in savingsInFlight
  /\ savingsInFlight' = savingsInFlight \ {id}
  /\ savings' = Some(v)
  /\ lastOp' = "SavingsResolved"
  /\ UNCHANGED << selectedFile, error, info, isPending, uploadInFlight,
                  savingsIssued, invalidateCount, refreshKey, uploadsStarted,
                  handleUploadResult, lastResponse, lastOutcome, dupHistory, gfVars, fmtVars, listVars >>

\* fetchSavingSize whose catch block also reports an error notice.
SavingsFailed_SetsError(id) ==
  /\ id \in savingsInFlight
  /\ savingsInFlight' = savingsInFlight \ {id}
  /\ savings' = Null
  /\ error' = Some(UploadFailedMessage)
  /\ lastOp' = "SavingsFailed"
  /\ UNCHANGED << selectedFile, info, isPending, uploadInFlight,
                  savingsIssued, invalidateCount, refreshKey, uploadsStarted,
                  handleUploadResult, lastResponse, lastOutcome, dupHistory,
                  gfVars, fmtVars, listVars >>

\* fetchSavingSize resumes in its catch block: the GET failed.
SavingsFailed(id) ==
  /\ id \in savingsInFlight
  /\ savingsInFlight' = savingsInFlight \ {id}
  /\ savings' = Null
  /\ lastOp' = "SavingsFailed"
  /\ UNCHANGED << selectedFile, error, info, isPending, uploadInFlight,
                  savingsIssued, invalidateCount, refreshKey, uploadsStarted,
                  handleUploadResult, lastResponse, lastOutcome, dupHistory, gfVars, fmtVars, listVars >>

Next ==
  \/ \E f \in Files : handleFileSelect(f)
  \/ handleFileSelectEmpty
  \/ handleUploadNoFile
  \/ handleUploadSubmit
  \/ \E resp \in UploadResponses : UploadComplete(resp)
  \/ \E id \in savingsInFlight, v \in SavingsValues : SavingsResolved(id, v)
  \/ \E id \in savingsInFlight : SavingsFailed(id)

Spec == Init /\ [][Next]_vars

\* ------------------------------------------------- getFiles as a call
\* A caller invokes getFiles with any filters object.
InitGetFiles ==
  /\ InitUpload
  /\ InitFormatIdle
  /\ InitList
  /\ gfFilters \in FilterInputs
  /\ gfPc = "idle"
  /\ gfParams = <<>>
  /\ gfResponse = NoListResponse
  /\ gfResult = NoResult

\* getFiles builds the query parameters and sends the GET.
getFilesSend ==
  /\ gfPc = "idle"
  /\ gfParams' = BuildParams(gfFilters)
  /\ gfPc' = "awaiting"
  /\ UNCHANGED << gfFilters, gfResponse, gfResult, uploadVars, fmtVars, listVars >>

\* The GET settles and getFiles returns or throws.
getFilesSettle(resp) ==
  /\ gfPc = "awaiting"
  /\ gfResponse' = resp
  /\ gfResult' = getFilesResult(resp)
  /\ gfPc' = "done"
  /\ UNCHANGED << gfFilters, gfParams, uploadVars, fmtVars, listVars >>

NextGetFiles ==
  \/ getFilesSend
  \/ \E resp \in ListResponses : getFilesSettle(resp)

SpecGetFiles == InitGetFiles /\ [][NextGetFiles]_vars

\* -------------------------------------------- formatFileSize as a call
\* Digits that byte counts are drawn from, and the counts themselves: all
\* numbers of at most MaxSizeDigits base-1024 digits.
SizeDigits == {0, 1, 512, 1023}

SizeInputs ==
  UNION { { b \in [1..len -> SizeDigits] : len > 0 => b[len] # 0 } :
          len \in 0..MaxSizeDigits }

InitFormat ==
  /\ InitUpload
  /\ InitGetFilesIdle
  /\ InitList
  /\ fmtBytes \in SizeInputs
  /\ fmtPc = "idle"
  /\ fmtOut = <<0, "">>

formatFileSizeCall ==
  /\ fmtPc = "idle"
  /\ fmtOut' = formatFileSize(fmtBytes)
  /\ fmtPc' = "done"
  /\ UNCHANGED << fmtBytes, uploadVars, gfVars, listVars >>

NextFormat == formatFileSizeCall

SpecFormat == InitFormat /\ [][NextFormat]_vars

\* ------------------------------------------------------ FileList actions
\* What FileList renders: the skeleton while the query loads for the first
\* time, the error panel when the query is in error, otherwise the filter
\* controls and the files.  No branch renders a notice: the state of the
\* delete and download mutations is read for `disabled` only.
ListView ==
  LET q == QueryOf(cache, HashKey(filters))
  IN  IF q.fetch # Null /\ q.data = Null /\ ~q.error
      THEN [mode |-> "loading", files |-> <<>>, notice |-> Null]
      ELSE IF q.error
      THEN [mode |-> "error", files |-> <<>>, notice |-> Null]
      ELSE [mode |-> "list",
            files |-> IF q.data = Null THEN <<>> ELSE q.data[1],
            notice |-> Null]

SeqElems(seq) == { seq[i] : i \in 1..Len(seq) }

\* deleteMutation.isPending of the mounted FileList
DeleteIsPending == \E d \in deletesInFlight : d.mount = refreshKey

\* handleFilterChange that applies the edit at once.
handleFilterChange_Applies(name, text) ==
  /\ ListView.mode = "list"
  /\ listOps < MaxListOps
  /\ inputFilters' = SetField(inputFilters, name, Str(text))
  /\ filters' = inputFilters'
  /\ listOps' = listOps + 1
  /\ lastOp' = "handleFilterChange"
  /\ UNCHANGED << cache, serverFiles, deletesInFlight, deleteErrored,
                  deleted, lastCreated, uploadState, gfVars, fmtVars >>

\* The user edits a filter input.
handleFilterChange(name, text) ==
  /\ ListView.mode = "list"
  /\ listOps < MaxListOps
  /\ inputFilters' = SetField(inputFilters, name, Str(text))
  /\ listOps' = listOps + 1
  /\ lastOp' = "handleFilterChange"
  /\ UNCHANGED << filters, cache, serverFiles, deletesInFlight,
                  deleteErrored, deleted, lastCreated, uploadState, gfVars,
                  fmtVars >>

\* The user clicks Search: setFilters(inputFilters); when the hash of the
\* query key changes, useQuery subscribes to the query of the new key.
handleSearch ==
  /\ ListView.mode = "list"
  /\ listOps < MaxListOps
  /\ filters' = inputFilters
  /\ cache' = IF HashKey(inputFilters) = HashKey(filters) THEN cache
              ELSE ObserveQuery(cache, inputFilters, serverFiles, refreshKey)
  /\ listOps' = listOps + 1
  /\ lastOp' = "handleSearch"
  /\ UNCHANGED << inputFilters, serverFiles, deletesInFlight, deleteErrored,
                  deleted, lastCreated, uploadState, gfVars, fmtVars >>

\* The user clicks Delete on a listed file; the buttons are disabled while
\* a delete of this FileList is pending.
handleDelete(id) ==
  /\ ListView.mode = "list"
  /\ id \in SeqElems(ListView.files)
  /\ ~DeleteIsPending
  /\ listOps < MaxListOps
  /\ deletesInFlight' = deletesInFlight \cup {[id |-> id, mount |-> refreshKey]}
  /\ deleteErrored' = FALSE
  /\ listOps' = listOps + 1
  /\ lastOp' = "handleDelete"
  /\ UNCHANGED << inputFilters, filters, cache, serverFiles, deleted,
                  lastCreated, uploadState, gfVars, fmtVars >>

\* The DELETE succeeded: the server dropped the record and
\* deleteMutation.onSuccess invalidates the files queries.
DeleteSucceeded(d) ==
  /\ d \in deletesInFlight
  /\ d.id \in serverFiles
  /\ serverFiles' = serverFiles \ {d.id}
  /\ cache' = InvalidateFiles(AddViews(cache, serverFiles'), filters,
                              serverFiles', refreshKey)
  /\ deletesInFlight' = deletesInFlight \ {d}
  /\ deleted' = deleted \cup {d.id}
  /\ lastOp' = "DeleteSucceeded"
  /\ UNCHANGED << inputFilters, filters, listOps, deleteErrored, lastCreated,
                  uploadState, gfVars, fmtVars >>

\* The DELETE failed: mutateAsync rejects and handleDelete logs the error
\* to the console.
DeleteFailed(d) ==
  /\ d \in deletesInFlight
  /\ deletesInFlight' = deletesInFlight \ {d}
  /\ deleteErrored' = (d.mount = refreshKey \/ deleteErrored)
  /\ lastOp' = "DeleteFailed"
  /\ UNCHANGED << inputFilters, filters, cache, serverFiles, listOps,
                  deleted, lastCreated, uploadState, gfVars, fmtVars >>

\* The response of a 200 answer carrying the listing as a bare array.
ArrayResponse(listing) ==
  [kind |-> "http", status |-> 200,
   body |-> [shape |-> "array", items |-> listing, detail |-> "absent",
             results |-> "absent"]]

\* The listings the GET in flight for this hash may be answered with.
PossibleListings(hash) ==
  IF cache[hash].fetch = Null THEN {} ELSE cache[hash].fetch[1].views

\* The query state a resolved GET leaves: the data getFiles returned.
Resolved(fetch, listing) ==
  [data |-> Some(getFilesResult(ArrayResponse(listing)).value),
   asOf |-> fetch.sentAt,
   from |-> { fetch.params[i] : i \in 1..Len(fetch.params) },
   error |-> FALSE, isInvalidated |-> FALSE, fetch |-> Null]

\* A component that keeps the list in one state variable: the answer of
\* any GET becomes the data of the applied criteria.
ListResolved_IntoApplied(hash, listing) ==
  /\ hash \in DOMAIN cache
  /\ listing \in PossibleListings(hash)
  /\ cache' = [h \in DOMAIN cache |->
                 IF h = HashKey(filters)
                 THEN Resolved(cache[hash].fetch[1], listing)
                 ELSE IF h = hash THEN [cache[h] EXCEPT !.fetch = Null]
                 ELSE cache[h]]
  /\ lastOp' = "ListResolved"
  /\ UNCHANGED << inputFilters, filters, serverFiles, deletesInFlight,
                  listOps, deleteErrored, deleted, lastCreated, uploadState,
                  gfVars, fmtVars >>

\* The GET of the query with this hash is answered and getFiles returns.
ListResolved(hash, listing) ==
  /\ hash \in DOMAIN cache
  /\ listing \in PossibleListings(hash)
  /\ cache' = [cache EXCEPT ![hash] = Resolved(cache[hash].fetch[1], listing)]
  /\ lastOp' = "ListResolved"
  /\ UNCHANGED << inputFilters, filters, serverFiles, deletesInFlight,
                  listOps, deleteErrored, deleted, lastCreated, uploadState,
                  gfVars, fmtVars >>

\* The GET of the query with this hash failed for good (the retries of the
\* query library included): the query enters the error state.
ListFailed(hash) ==
  /\ hash \in DOMAIN cache
  /\ cache[hash].fetch # Null
  /\ cache' = [cache EXCEPT ![hash] = [@ EXCEPT !.error = TRUE, !.fetch = Null]]
  /\ lastOp' = "ListFailed"
  /\ UNCHANGED << inputFilters, filters, serverFiles, deletesInFlight,
                  listOps, deleteErrored, deleted, lastCreated, uploadState,
                  gfVars, fmtVars >>

\* The FileList component alone: the user's edits, searches and deletes
\* and the answers of the server.
NextList ==
  \/ \E name \in ListFields, text \in InputTexts : handleFilterChange(name, text)
  \/ handleSearch
  \/ \E id \in serverFiles \cup deleted : handleDelete(id)
  \/ \E d \in deletesInFlight : DeleteSucceeded(d)
  \/ \E d \in deletesInFlight : DeleteFailed(d)
  \/ \E hash \in DOMAIN cache :
       \E listing \in PossibleListings(hash) : ListResolved(hash, listing)
  \/ \E hash \in DOMAIN cache : ListFailed(hash)

SpecList == Init /\ [][NextList]_vars

\* App: the file list together with the upload component.  The upload
\* inputs are one file and one response for each outcome; the savings
\* answers do not touch the list and are left out.
ListFiles == { f \in Files : f.name = "b.pdf" }

ListUploadResponses ==
  { r \in UploadResponses :
      \/ r.kind = "http" /\ r.status = 201 /\ r.body.tag = "record"
      \/ r.kind = "http" /\ r.status = 409
           /\ r.body.keys = {"message", "duplicate_file_id"}
           /\ r.body.message = "duplicate"
      \/ r.kind = "http" /\ r.status = 500 /\ r.body.tag = "text" }

NextApp ==
  \/ \E name \in ListFields, text \in InputTexts : handleFilterChange(name, text)
  \/ handleSearch
  \/ \E id \in serverFiles \cup deleted : handleDelete(id)
  \/ \E d \in deletesInFlight : DeleteSucceeded(d)
  \/ \E d \in deletesInFlight : DeleteFailed(d)
  \/ \E hash \in DOMAIN cache :
       \E listing \in PossibleListings(hash) : ListResolved(hash, listing)
  \/ \E hash \in DOMAIN cache : ListFailed(hash)
  \/ \E f \in ListFiles : handleFileSelect(f)
  \/ (uploadsStarted < MaxAppUploads /\ handleUploadSubmit)
  \/ \E resp \in ListUploadResponses : UploadComplete(resp)

SpecApp == Init /\ [][NextApp]_vars

\* =================================================================
\* Properties
\* =================================================================

\* A step in which the upload request completes.
UploadCompletes == isPending /\ ~isPending'

\* The response shapes of section 6: a 2xx carrying a FileRecord, and a
\* 409 whose body carries both message and duplicate_file_id.
IsCreatedResponse(resp) ==
  resp.kind = "http" /\ Is2xx(resp.status) /\ resp.body.tag = "record"

IsDuplicateResponse(resp) ==
  /\ resp.kind = "http" /\ resp.status = 409
  /\ resp.body.tag = "object"
  /\ {"message", "duplicate_file_id"} \subseteq resp.body.keys

\* C1: when the server answered the upload with 409 and a body carrying
\* message and duplicate_file_id, the controller shows the info notice, no
\* error notice, and handleUpload returned without throwing.
C1_DuplicateYieldsNotice ==
  (lastOp = "UploadComplete" /\ IsDuplicateResponse(lastResponse[1]))
    => /\ info # Null
       /\ error = Null
       /\ handleUploadResult = "returned"

C1_Witness ==
  /\ lastOp = "UploadComplete"
  /\ IsDuplicateResponse(lastResponse[1])
  /\ info # Null
  /\ handleUploadResult = "returned"

\* C2: a completion with the Created outcome invalidates the list query,
\* clears the selection and both notices, issues one savings fetch and calls
\* the refresh listener exactly once, all in that step.
C2_CreatedEffects ==
  [][ (UploadCompletes /\ lastOutcome' = "Created")
        => /\ invalidateCount' = invalidateCount + 1
           /\ selectedFile' = Null
           /\ error' = Null
           /\ info' = Null
           /\ savingsIssued' = savingsIssued + 1
           /\ savingsInFlight' = savingsInFlight \cup {savingsIssued'}
           /\ savingsIssued' \notin savingsInFlight
           /\ refreshKey' = refreshKey + 1 ]_vars

C2_Witness ==
  /\ lastOp = "UploadComplete"
  /\ lastOutcome = "Created"
  /\ selectedFile = Null
  /\ invalidateCount = 1
  /\ refreshKey = 1
  /\ savingsIssued = 2

\* C3: at a completion a savings fetch is issued exactly when the outcome
\* is Created or Duplicate; a Failed completion issues no savings fetch, no
\* list invalidation and no refresh notification.
C3_SavingsFetchIffCreatedOrDuplicate ==
  [][ UploadCompletes
        => /\ (savingsIssued' # savingsIssued
                 <=> lastOutcome' \in {"Created", "Duplicate"})
           /\ (savingsInFlight' # savingsInFlight
                 <=> lastOutcome' \in {"Created", "Duplicate"})
           /\ (lastOutcome' = "Failed"
                 => UNCHANGED << savingsIssued, savingsInFlight,
                                 invalidateCount, refreshKey >>) ]_vars

C3_Witness ==
  /\ lastOp = "UploadComplete"
  /\ lastOutcome = "Failed"
  /\ Len(dupHistory) = 1
  /\ savingsIssued = 2
  /\ invalidateCount = 0
  /\ refreshKey = 0

\* C4: the selection goes from present to absent only in a completion with
\* the Created outcome; Duplicate and Failed completions, a submit without a
\* file and savings fetches leave it as it was.
C4_SelectionClearedOnlyOnCreated ==
  [][ /\ (selectedFile # Null /\ selectedFile' = Null)
           => (UploadCompletes /\ lastOutcome' = "Created")
      /\ (UploadCompletes /\ lastOutcome' \in {"Duplicate", "Failed"})
           => selectedFile' = selectedFile
      /\ lastOp' \in {"handleUploadNoFile", "SavingsResolved", "SavingsFailed"}
           => selectedFile' = selectedFile ]_vars

C4_Witness ==
  /\ lastOp = "UploadComplete"
  /\ lastOutcome = "Duplicate"
  /\ selectedFile # Null
  /\ refreshKey = 1

\* C5: right after a file selection both the error notice and the info
\* notice are empty.
C5_SelectClearsNotices ==
  lastOp = "handleFileSelect" => (error = Null /\ info = Null)

\* C6: handleUpload with no file selected only sets the validation message:
\* no upload request, no savings fetch, no invalidation, and the selection,
\* the info notice and the savings are unchanged.
C6_SubmitWithoutFileIsLocal ==
  [][ lastOp' = "handleUploadNoFile"
        => /\ error' = Some(SelectFileMessage)
           /\ UNCHANGED << selectedFile, info, savings, isPending,
                           uploadInFlight, uploadsStarted, savingsIssued,
                           savingsInFlight, invalidateCount, refreshKey >> ]_vars

C6_Witness ==
  /\ lastOp = "handleUploadNoFile"
  /\ selectedFile = Null
  /\ error = Some(SelectFileMessage)
  /\ ~isPending
  /\ uploadsStarted = 0

\* C7: two duplicate completions for files of the same size whose server
\* messages differ show different notices.
C7_NoticeDependsOnMessage ==
  (/\ Len(dupHistory) = 2
   /\ dupHistory[1].size = dupHistory[2].size
   /\ dupHistory[1].message # dupHistory[2].message)
    => dupHistory[1].notice # dupHistory[2].notice

\* C8: every response that is neither a 2xx with a FileRecord nor a 409
\* with both message and duplicate_file_id ends in the error notice.
C8_OtherResponsesFail ==
  (/\ lastOp = "UploadComplete"
   /\ ~IsCreatedResponse(lastResponse[1])
   /\ ~IsDuplicateResponse(lastResponse[1]))
    => (error = Some(UploadFailedMessage) /\ info = Null)

\* The fields of a filters object the list request must carry.
C9_Defined(value) ==
  value.t \in {"string", "number"} /\ value # Str("")

C9_Printed(value) ==
  IF value.t = "number" THEN ToString(value.n) ELSE value.s

\* C9: the query parameters sent are exactly the fields whose value is
\* defined, non-null and not the empty string, each once and with its value;
\* with no such field no parameter is sent.
C9_ParamsAreDefinedFields ==
  gfPc # "idle" =>
    /\ \A k \in FilterKeys :
         (\E j \in 1..Len(gfParams) : gfParams[j][1] = k)
           <=> (\E i \in 1..Len(gfFilters) :
                  gfFilters[i].key = k /\ C9_Defined(gfFilters[i].value))
    /\ \A j \in 1..Len(gfParams) :
         \E i \in 1..Len(gfFilters) :
           /\ gfFilters[i].key = gfParams[j][1]
           /\ gfParams[j][2] = C9_Printed(gfFilters[i].value)
    /\ \A j1, j2 \in 1..Len(gfParams) :
         gfParams[j1][1] = gfParams[j2][1] => j1 = j2
    /\ (\A i \in 1..Len(gfFilters) : ~C9_Defined(gfFilters[i].value))
         => gfParams = <<>>

C9_Witness ==
  /\ gfPc = "awaiting"
  /\ Len(gfFilters) = 2
  /\ gfFilters[1].value = Str("")
  /\ gfFilters[2].value = Num(0)
  /\ gfParams = << <<gfFilters[2].key, "0">> >>

\* C10: for a 2xx list response getFiles returns the array when the body
\* is a bare array, the empty sequence (without throwing) when the body is
\* an object with a string detail field, and the contents of results when
\* the body is any other object with a results array.
C10_ThreeResponseShapes ==
  (gfPc = "done" /\ gfResponse.kind = "http" /\ Is2xx(gfResponse.status)) =>
    LET body == gfResponse.body
    IN  /\ body.shape = "array" => gfResult = Returned(body.items)
        /\ (body.shape = "object" /\ body.detail = "string")
             => gfResult = Returned(<<>>)
        /\ (body.shape = "object" /\ body.detail # "string"
              /\ body.results = "array")
             => gfResult = Returned(body.items)

C10_Witness ==
  /\ gfPc = "done"
  /\ gfResponse.kind = "http" /\ gfResponse.status = 200
  /\ gfResponse.body.shape = "object"
  /\ gfResponse.body.detail = "absent"
  /\ gfResponse.body.results = "array"
  /\ gfResponse.body.items = <<"f1", "f2">>
  /\ gfResult = Returned(<<"f1", "f2">>)

\* The set of query parameters getFiles sends for a filters object.
C11_ParamSet(f) == { BuildParams(f)[i] : i \in 1..Len(BuildParams(f)) }

\* C11: when the criteria applied by a search send the same non-empty set
\* of query parameters as the criteria applied before, both have the same
\* query key and the search reuses the cache entry: no entry is added.
C11_SameParamsSameKey ==
  [][ (/\ lastOp' = "handleSearch"
       /\ C11_ParamSet(filters) # {}
       /\ C11_ParamSet(filters') = C11_ParamSet(filters))
        => /\ HashKey(filters') = HashKey(filters)
           /\ DOMAIN cache' = DOMAIN cache ]_vars

\* C12: an edit of a filter field changes the pending criteria only: the
\* applied criteria, the query cache (keys, data and requests in flight),
\* the deletes in flight and the server's collection stay as they were.
C12_EditChangesOnlyPending ==
  [][ lastOp' = "handleFilterChange"
        => UNCHANGED << filters, cache, deletesInFlight, serverFiles,
                        deleted, deleteErrored, uploadState >> ]_vars

C12_Witness ==
  /\ lastOp = "handleFilterChange"
  /\ Len(inputFilters) = 2
  /\ inputFilters[1].value = Str("pdf")
  /\ inputFilters[2].value = Str("pdf")
  /\ filters = << >>
  /\ DOMAIN cache = {HashKey(filters)}
  /\ cache[HashKey(filters)].fetch = Null
  /\ cache[HashKey(filters)].data # Null

\* C13: a search makes the applied criteria equal to the pending criteria
\* and leaves a list request in flight for the key of the applied criteria
\* whose parameters are those of the applied criteria; an edit made
\* afterwards does not change the applied criteria.
C13_SearchAppliesAndFetches ==
  [][ /\ lastOp' = "handleSearch"
        => /\ filters' = inputFilters
           /\ LET q == QueryOf(cache', HashKey(filters'))
              IN  /\ q.fetch # Null
                  /\ { q.fetch[1].params[i] :
                         i \in 1..Len(q.fetch[1].params) }
                       = C11_ParamSet(filters')
      /\ lastOp' = "handleFilterChange" => filters' = filters ]_vars

\* No list request is in flight.
ListRequestsResolved == \A h \in DOMAIN cache : cache[h].fetch = Null

\* C14: after a Created upload, once all list requests have resolved, the
\* data held for the criteria applied before the upload includes the new
\* record when it matches them, and the data displayed comes from a
\* request sent after the upload completed.
C14_CreatedRecordIsListed ==
  (lastCreated # Null /\ ListRequestsResolved) =>
    LET held == QueryOf(cache, HashKey(lastCreated[1].filters))
        shown == QueryOf(cache, HashKey(filters))
    IN  /\ (/\ held.data # Null /\ ~held.error
            /\ lastCreated[1].id \in serverFiles
            /\ RecordMatches(lastCreated[1].id,
                             BuildParams(lastCreated[1].filters)))
             => lastCreated[1].id \in SeqElems(held.data[1])
        /\ (shown.data # Null /\ ~shown.error) => shown.asOf = refreshKey

\* C15: once the list requests have resolved, the displayed list holds no
\* record whose delete succeeded.
C15_DeletedRecordNotListed ==
  (ListRequestsResolved /\ ListView.mode = "list")
    => SeqElems(ListView.files) \cap deleted = {}

\* C16: a failed delete issues no invalidation, keeps the displayed list
\* and both criteria, and leaves an error notice in the list component.
C16_DeleteFailureIsSurfaced ==
  [][ lastOp' = "DeleteFailed"
        => /\ UNCHANGED << cache, filters, inputFilters, serverFiles >>
           /\ ListView'.files = ListView.files
           /\ ListView'.notice # Null ]_vars

\* C17: while the query of the applied criteria is in the error state the
\* list component shows the list view with zero records, its filter
\* controls included.
C17_FailedFetchShowsEmptyList ==
  QueryOf(cache, HashKey(filters)).error
    => (ListView.mode = "list" /\ ListView.files = << >>)

\* C18: when a savings fetch fails the savings become absent and the error
\* notice, the info notice, the selection and the upload state stay as they
\* were.
C18_SavingsFailureOnlyClearsSavings ==
  [][ lastOp' = "SavingsFailed" /\ savingsInFlight' # savingsInFlight
        => /\ savings' = Null
           /\ UNCHANGED << error, info, selectedFile, isPending,
                           uploadInFlight, handleUploadResult >> ]_vars

C18_Witness ==
  /\ lastOp = "SavingsFailed"
  /\ savings = Null
  /\ info # Null
  /\ selectedFile # Null
  /\ savingsInFlight # {}

\* The unit the specification prescribes: index floor(log_1024 b) clamped
\* to [0, 3].
C19_ClampedUnit(bytes) ==
  LET i == Len(bytes) - 1
  IN  << "Bytes", "KB", "MB", "GB" >>[IF i > 3 THEN 4 ELSE i + 1]

\* C19: formatFileSize(0) is "0 Bytes", and for b > 0 the unit is the one
\* at index floor(log_1024 b) clamped to [0, 3], always one of Bytes, KB,
\* MB, GB.
C19_UnitIsClamped ==
  fmtPc = "done" =>
    IF fmtBytes = <<>> THEN fmtOut = <<0, "Bytes">>
    ELSE fmtOut[2] = C19_ClampedUnit(fmtBytes)


\* C20: no step of the upload component (select, submit, completion)
\* changes the pending or the applied criteria, and a Created completion
\* leaves a request in flight for the query of the criteria applied before
\* the upload.
C20_UploadKeepsCriteria ==
  [][ lastOp' \in {"handleFileSelect", "handleUploadSubmit", "UploadComplete"}
        => /\ UNCHANGED << filters, inputFilters >>
           /\ (UploadCompletes /\ lastOutcome' = "Created")
                => QueryOf(cache', HashKey(filters)).fetch # Null ]_vars


\* C21: the data of the query of the applied criteria, which is what the
\* list displays, is the answer to a request that carried the parameters
\* of the applied criteria; the answer to a request of another key never
\* becomes it.
C21_DisplayedDataIsOfAppliedKey ==
  LET q == QueryOf(cache, HashKey(filters))
  IN  /\ q.data # Null => q.from = C11_ParamSet(filters)
      /\ ListView.mode = "list" => ListView.files =
           (IF q.data = Null THEN << >> ELSE q.data[1])

\* A request of the key applied before resolved while the request of the
\* newly applied key is still in flight.
C21_Witness ==
  LET q == QueryOf(cache, HashKey(filters))
  IN  /\ lastOp = "ListResolved"
      /\ q.fetch # Null
      /\ q.data = Null
      /\ C11_ParamSet(filters) # {}
      /\ \E h \in DOMAIN cache :
           /\ h # HashKey(filters)
           /\ cache[h].fetch = Null
           /\ cache[h].data # Null
           /\ cache[h].from = {}
           /\ deleted # {}
           /\ cache[h].data[1] = << >>


\* C22: the error notice and the info notice are never both set.
C22_NoticesExclusive == ~(error # Null /\ info # Null)

\* An upload failed after a duplicate notice had been shown: the error
\* notice is set and the info notice is gone.
C22_Witness ==
  /\ lastOp = "UploadComplete"
  /\ lastOutcome = "Failed"
  /\ dupHistory # << >>
  /\ error = Some(UploadFailedMessage)
  /\ info = Null

\* C23: at most one upload is in flight: while one is pending the selection
\* is the file that was sent, no submit and no selection takes place, and
\* the size in the notice of a duplicate completion is that of the file
\* sent.
C23_OneUploadInFlight ==
  [][ /\ isPending => (uploadInFlight # Null /\ selectedFile = uploadInFlight)
      /\ uploadsStarted' # uploadsStarted => ~isPending
      /\ (isPending /\ selectedFile' # selectedFile) => UploadCompletes
      /\ (UploadCompletes /\ lastOutcome' = "Duplicate")
           => info' = Some(DuplicateInfo(uploadFile(lastResponse'[1]),
                                         uploadInFlight)) ]_vars

C23_Witness ==
  /\ lastOp = "UploadComplete"
  /\ lastOutcome = "Duplicate"
  /\ uploadsStarted = 2
  /\ info # Null
  /\ selectedFile # Null
  /\ info[1].fileSize = Some(formatFileSize(selectedFile[1].size))
  /\ Len(dupHistory) = 2
  /\ dupHistory[1].size # dupHistory[2].size

\* C24: a savings fetch that settles after a fetch issued later has
\* settled leaves the displayed savings as they are, so that after all of
\* them the savings shown are those of the fetch issued last.
C24_LatestSavingsFetchWins ==
  [][ \A id \in savingsInFlight \ savingsInFlight' :
        (\E j \in (id + 1)..savingsIssued : j \notin savingsInFlight)
          => savings' = savings ]_vars

====
